---- MODULE Spec2Model ----
(***************************************************************************)
(* A model of the AmbiAttach scripts:                                      *)
(*   main.py      training loop, test_evaluate, get_complexity, the        *)
(*                interactive loop                                         *)
(*   run_test.py  the per-experiment driver                                *)
(* One behaviour is one run of one script; Init chooses the script and its *)
(* command line.                                                           *)
(***************************************************************************)
EXTENDS Integers, Sequences, FiniteSets, TLC

VARIABLES
    prog,            \* which run: "train", "test", "interact", "run_test"
    pc,              \* position of the run
    \* ---- main.py, training (lines 549-580)
    epochs,          \* args.epochs
    epoch,           \* number of the last epoch started (0 before the loop)
    lr,              \* learning rate, in units of 1/LrScale
    best_val_loss,   \* None or <<v>>
    no_improvement,
    model_file,      \* None or <<e>>: the epoch whose model torch.save wrote
    val_hist,        \* history: val_loss of every completed epoch
    save_hist,       \* history: whether each completed epoch saved the model
    exit_msg,        \* the message printed when the run left its loop
    \* ---- main.py, test_evaluate (lines 388-493)
    complexn,        \* args.complexn (--complexn until test_evaluate normalises it)
    guessn,          \* args.guessn
    softcliptopk, guess, adapt, words, view_layer,
    nsents,          \* len(data_source)
    i,               \* index of the sentence being processed
    targets,         \* targets of sentence i (indices into idx2word, from 1)
    output_flat,     \* the model's scores for sentence i, one vector per target
    beamix,          \* per position, the indices torch.topk returned
    rows,            \* rows printed for sentence i
    loss,            \* None or <<criterion(output_flat, targets)>>
    params,          \* the model's parameter
    grad,            \* param.grad (accumulated by backward())
    nupdates,        \* history: number of param.data.add_ executed
    sent_grad,       \* history: the gradient of the loss of the last sentence backward() ran on
    last_update,     \* history: what the last param.data.add_ added to params
    out_updates,     \* history: nupdates when sentence i's forward pass ran
    adapted_model,   \* None or <<params written to args.adapted_model>>
    \* ---- main.py, interactive loop (lines 619-638)
    ninputs,         \* sentences read at the prompt
    sigint,          \* history: a KeyboardInterrupt has been raised
    \* ---- run_test.py
    argv,            \* sys.argv
    lang, model_num,
    nexp,            \* experiments of the language already run
    calls,           \* subprocess.run calls made, in order
    \* ---- compile_results.py
    results_dir,     \* the paths of the files under results/
    disk,            \* contents of the files opened in this pass over a language
    nlang,           \* languages of langs already aggregated
    files,           \* glob.glob(path+lang+'/*')
    ncexp,           \* experiments of the language already aggregated
    red_files,       \* files of red_files not yet read
    entries,         \* the Entry objects of the experiment
    surp,            \* the script's variable surp, None while unbound
    means,           \* None or the four means printed for the experiment
    sel_hist,        \* history: <<lang, exp, red_files>> of every filter so far
    rec_file,        \* history: None or <<the file read last>>
    rec_surps,       \* history: every value appended to surps for that file
    rec_entries      \* history: the entries made from that file

trainvars == <<epochs, epoch, best_val_loss, no_improvement, model_file,
               val_hist, save_hist>>
argvars   == <<softcliptopk, guess, adapt, words, view_layer>>
sentvars  == <<targets, output_flat, beamix, rows, loss, out_updates>>
paramvars == <<params, grad, nupdates, sent_grad, last_update>>
testvars  == <<complexn, guessn, nsents, i, adapted_model>>
intvars   == <<ninputs, sigint>>
rtvars    == <<argv, lang, model_num, nexp, calls>>
crvars    == <<results_dir, disk, nlang, files, ncexp, red_files, entries, surp,
               means, sel_hist, rec_file, rec_surps, rec_entries>>
vars == <<prog, pc, lr, exit_msg, trainvars, argvars, sentvars, paramvars,
          testvars, intvars, rtvars, crvars>>

(***************************************************************************)
(* Bounds of the model.                                                    *)
(***************************************************************************)
MaxEpochs == 5        \* largest --epochs
MaxLoss == 2          \* validation losses are 0..MaxLoss
MaxSents == 2         \* largest len(data_source)
MaxTargets == 2       \* largest number of targets of a sentence
MaxInputs == 2        \* sentences typed at the interactive prompt
MaxModelNum == 6      \* largest model number given to run_test.py
Resolution == 6       \* logs are kept in units of 1/Resolution bit
MaxRunModel == 1      \* largest model number run_test.py was run with before compile_results.py
MaxFileSents == 5     \* largest number of sentences of a results file
MaxSurp == 2          \* surprisals in a results file are 0..MaxSurp
MaxFirst == 1         \* the surprisal of the first row of a results file is 0..MaxFirst

(***************************************************************************)
(* Python values.                                                          *)
(***************************************************************************)
None == <<>>
NaN == <<>>
Inf == 1000000
NegInf == -Inf

RECURSIVE Pow(_, _)
Pow(b, n) == IF n = 0 THEN 1 ELSE b * Pow(b, n - 1)

\* floor(log2(n)), n >= 1
RECURSIVE ILog2(_)
ILog2(n) == IF n < 2 THEN 0 ELSE 1 + ILog2(n \div 2)

RECURSIVE SumOver(_, _)
SumOver(S, f) ==
    IF S = {} THEN 0
    ELSE LET c == CHOOSE x \in S : TRUE IN f[c] + SumOver(S \ {c}, f)

\* bool(x) of an optional float: None and 0.0 are false
Truthy(x) == x /= None /\ x[1] /= 0

(***************************************************************************)
(* main.py: the epoch loop.                                                *)
(***************************************************************************)
ArgsLr == 20
LrScale == Pow(4, MaxEpochs)
ValLosses == 0 .. MaxLoss

\* line 566: not best_val_loss or val_loss < best_val_loss
IsBest(best, val_loss) == ~Truthy(best) \/ val_loss < best[1]

\* lines 556-577, one pass of the loop body
EpochStep ==
    /\ prog = "train" /\ pc = "epoch_loop"
    /\ epoch < epochs
    /\ \E val_loss \in ValLosses :
        /\ epoch' = epoch + 1
        /\ val_hist' = Append(val_hist, val_loss)
        /\ IF IsBest(best_val_loss, val_loss)
           THEN /\ no_improvement' = 0
                /\ model_file' = <<epoch + 1>>
                /\ best_val_loss' = <<val_loss>>
                /\ save_hist' = Append(save_hist, TRUE)
                /\ UNCHANGED <<lr, pc, exit_msg>>
           ELSE /\ no_improvement' = no_improvement + 1
                /\ save_hist' = Append(save_hist, FALSE)
                /\ UNCHANGED <<model_file, best_val_loss>>
                /\ IF no_improvement + 1 >= 3
                   THEN /\ pc' = "done"
                        /\ exit_msg' = "Covergence achieved! Ending training early"
                        /\ lr' = lr
                   ELSE /\ lr' = lr \div 4
                        /\ UNCHANGED <<pc, exit_msg>>
    /\ UNCHANGED <<prog, crvars, epochs, argvars, sentvars, paramvars, testvars,
                   intvars, rtvars>>

\* line 556: range(1, args.epochs+1) is exhausted
EpochsExhausted ==
    /\ prog = "train" /\ pc = "epoch_loop"
    /\ epoch >= epochs
    /\ pc' = "done"
    /\ UNCHANGED <<prog, crvars, lr, exit_msg, trainvars, argvars, sentvars,
                   paramvars, testvars, intvars, rtvars>>

\* lines 578-580: Ctrl+C during the loop; the epoch under way is abandoned
TrainInterrupt ==
    /\ prog = "train" /\ pc = "epoch_loop"
    /\ epoch < epochs
    /\ pc' = "done"
    /\ exit_msg' = "Exiting from training early"
    /\ sigint' = TRUE
    /\ UNCHANGED <<prog, crvars, lr, trainvars, argvars, sentvars, paramvars,
                   testvars, ninputs, rtvars>>

(***************************************************************************)
(* main.py: complexity measures.  A score s stands for the logit s*ln(2),  *)
(* so that exp(s) is a power of two; logs are floored to 1/Resolution bit. *)
(***************************************************************************)
idx2word == <<"<eos>", "a", "dog">>
ntokens == Len(idx2word)
Classes == 1 .. ntokens
\* the score vectors the model may give for a position
Logits == {<<-1, -1, -1>>, <<1, -1, -1>>, <<1, 1, -1>>}
Scores == {v[c] : v \in Logits, c \in Classes}
MinScore == CHOOSE m \in Scores \cup {0} : \A s \in Scores \cup {0} : m <= s
csep == " "

\* Python's max(a, b): b only when it is greater
pymax(a, b) == IF b > a THEN b ELSE a

\* torch.topk(state, k, 0): the index sets it may return (ties are its choice)
topk(state, k) ==
    {S \in SUBSET Classes :
        /\ Cardinality(S) = k
        /\ \A c \in S, d \in Classes \ S : state[c] >= state[d]}

\* get_beam as the comment of line 262 words it: the losing guesses set to 0
get_beam_zero(state, ix, n, soft) ==
    IF n = 0 THEN state
    ELSE [c \in Classes |-> IF c \in ix THEN state[c] ELSE 0]

\* lines 259-267 (and 280-288): the vector the measures are computed over
get_beam(state, ix, n, soft) ==
    IF n = 0 THEN state
    ELSE [c \in Classes |->
            IF c \in ix THEN state[c] ELSE IF soft THEN 0 ELSE NegInf]

\* exp of a score, scaled by exp(-MinScore); exp(-inf) = 0
exp(s) == IF s = NegInf THEN 0 ELSE Pow(2, s - MinScore)

\* the denominator of softmax(beam)
softmax_sum(beam) == SumOver(Classes, [c \in Classes |-> exp(beam[c])])

\* torch.log of a positive integer, in units of 1/Resolution bit
log(z) == ILog2(Pow(z, Resolution))

\* nn.functional.log_softmax(beam, dim=0)
log_softmax(beam) ==
    LET logsum == log(softmax_sum(beam))
    IN [c \in Classes |->
           IF beam[c] = NegInf THEN NegInf
           ELSE Resolution * (beam[c] - MinScore) - logsum]

\* lines 290-291
get_surps(beam) ==
    LET logprobs == log_softmax(beam)
    IN [c \in Classes |->
           IF logprobs[c] = NegInf THEN Inf ELSE -1 * logprobs[c]]

\* line 272: probs * logprobs, as numerators over softmax_sum; 0 * -inf is nan
prod(beam) ==
    LET logprobs == log_softmax(beam)
    IN [c \in Classes |->
           IF beam[c] = NegInf THEN NaN ELSE <<exp(beam[c]) * logprobs[c]>>]

\* line 274: prod[prod == prod]
not_nan(p) == {c \in Classes : p[c] /= NaN}

\* lines 269-274
get_entropy(beam) ==
    LET p == prod(beam)
        total == SumOver(not_nan(p), [c \in Classes |-> IF p[c] = NaN THEN 0 ELSE p[c][1]])
    IN (-1 * total) \div softmax_sum(beam)

\* torch.log2(torch.exp(x)): nats to bits; both are counted in the same unit
log2exp(x) == IF x >= Inf THEN Inf ELSE x

\* lines 296-302: torch.topk(state, guessn, 0) as an index sequence, best first
get_guesses(state, n) ==
    {g \in [1 .. n -> Classes] :
        /\ \A j, k \in 1 .. n : j < k => g[j] /= g[k] /\ state[g[j]] >= state[g[k]]
        /\ {g[k] : k \in 1 .. n} \in topk(state, n)}

RECURSIVE join(_, _)
join(sep, ws) ==
    IF ws = <<>> THEN ""
    ELSE IF Len(ws) = 1 THEN ws[1]
    ELSE ws[1] \o sep \o join(sep, Tail(ws))

\* entred without the outer max(0, ...)
entred_unclamped(Hs, p) == Hs[pymax(p - 1, 1)] - Hs[p]

\* entred without the inner max(..., 0): Hs[-1] is the last entropy
entred_wrap(Hs, p) == pymax(0, Hs[IF p - 1 >= 1 THEN p - 1 ELSE Len(Hs)] - Hs[p])

\* lines 343, 348: p is the target's position counted from 1
entred(Hs, p) == pymax(0, Hs[pymax(p - 1, 1)] - Hs[p])

\* lines 318-348: the fields of the row of position p
complexity_row(p, obs, sentid, Hs, surps, guesses, withguess) ==
    LET word == idx2word[obs[p]]
    IN <<word, sentid, p - 1, Len(word), surps[p][obs[p]], Hs[p], entred(Hs, p)>>
       \o (IF withguess
           THEN <<join(csep, [k \in 1 .. Len(guesses[p]) |-> idx2word[guesses[p][k]]])>>
           ELSE <<>>)

\* the loop without the continue of lines 319-321
complexity_rows_all(p, obs, sentid, Hs, surps, guesses, withguess) ==
    [k \in 1 .. Len(obs) - p + 1 |->
        complexity_row(k + p - 1, obs, sentid, Hs, surps, guesses, withguess)]

\* lines 317-348: the loop over the targets from position p on
RECURSIVE complexity_rows(_, _, _, _, _, _, _)
complexity_rows(p, obs, sentid, Hs, surps, guesses, withguess) ==
    IF p > Len(obs) THEN <<>>
    ELSE IF idx2word[obs[p]] = "<eos>"
    THEN complexity_rows(p + 1, obs, sentid, Hs, surps, guesses, withguess)
    ELSE <<complexity_row(p, obs, sentid, Hs, surps, guesses, withguess)>>
         \o complexity_rows(p + 1, obs, sentid, Hs, surps, guesses, withguess)

\* line 310: apply(get_entropy, state), in bits
RECURSIVE entropies(_, _, _, _)
entropies(state, ix, n, soft) ==
    IF state = <<>> THEN <<>>
    ELSE <<log2exp(get_entropy(get_beam(Head(state), Head(ix), n, soft)))>>
         \o entropies(Tail(state), Tail(ix), n, soft)

\* line 311: apply(get_surps, state), in bits
RECURSIVE surprisals(_, _, _, _)
surprisals(state, ix, n, soft) ==
    IF state = <<>> THEN <<>>
    ELSE LET surps == get_surps(get_beam(Head(state), Head(ix), n, soft))
         IN <<[c \in Classes |-> log2exp(surps[c])]>>
            \o surprisals(Tail(state), Tail(ix), n, soft)

\* lines 308-348
get_complexity(state, obs, sentid, ix, guesses) ==
    complexity_rows(1, obs, sentid,
                    entropies(state, ix, complexn, softcliptopk),
                    surprisals(state, ix, complexn, softcliptopk),
                    guesses, guess)

\* line 462: nn.CrossEntropyLoss, the mean surprisal of the targets
criterion(state, obs) ==
    SumOver(1 .. Len(obs), [p \in 1 .. Len(obs) |-> get_surps(state[p])[obs[p]]])
        \div Len(obs)

(***************************************************************************)
(* main.py: test_evaluate.                                                 *)
(***************************************************************************)
Clip == 1             \* args.clip, the unit gradients are counted in
Grads == {-2, 0, 1}   \* gradients backward() may add for one sentence

\* the test of line 398 with complexn < 0
beamsize_lt(n) == IF n > ntokens \/ n < 0 THEN ntokens ELSE n

\* lines 398-399
beamsize(n) == IF n > ntokens \/ n <= 0 THEN ntokens ELSE n

\* line 478: clip_grad_norm over the one parameter
clip_grad_norm(g) == IF g > Clip THEN Clip ELSE IF g < -Clip THEN -Clip ELSE g

ClearSentence ==
    /\ targets' = <<>> /\ output_flat' = <<>> /\ beamix' = <<>>
    /\ rows' = <<>> /\ loss' = None

\* the results torch.topk may give at line 263 and at line 296, per position
topk_of(state) == [p \in 1 .. Len(state) |-> topk(state[p], complexn)]
\* lines 313-315: no guesses are computed without --guess
guesses_of(state) ==
    [p \in 1 .. Len(state) |-> IF guess THEN get_guesses(state[p], guessn) ELSE {<<>>}]

\* the sequences that take one element of every set of the sequence sets
RECURSIVE choices(_)
choices(sets) ==
    IF sets = <<>> THEN {<<>>}
    ELSE {<<x>> \o rest : x \in Head(sets), rest \in choices(Tail(sets))}

\* lines 391-421
Normalise ==
    /\ prog \in {"test", "interact"} /\ pc = "normalise"
    /\ complexn' = beamsize(complexn)
    /\ guessn' = IF beamsize(complexn) /= complexn /\ guessn > ntokens
                 THEN ntokens ELSE guessn
    /\ i' = 0
    /\ pc' = "loop"
    /\ UNCHANGED <<prog, crvars, lr, exit_msg, trainvars, argvars, sentvars,
                   paramvars, nsents, adapted_model, intvars, rtvars>>

\* lines 424-430 and 455-472: forward pass, loss and output of sentence i
EvalSentence ==
    /\ prog \in {"test", "interact"} /\ pc = "loop"
    /\ i < nsents
    /\ view_layer < 0
    /\ \E n \in 1 .. MaxTargets :
       \E obs \in [1 .. n -> Classes], state \in [1 .. n -> Logits] :
        /\ targets' = obs
        /\ output_flat' = state
        /\ loss' = <<criterion(state, obs)>>
        /\ out_updates' = nupdates
        /\ IF words
           THEN \E ix \in choices(topk_of(state)), gs \in choices(guesses_of(state)) :
                   /\ beamix' = ix
                   /\ rows' = get_complexity(state, obs, i, ix, gs)
           ELSE /\ beamix' = <<>>
                /\ rows' = <<>>
    /\ pc' = "adapt"
    /\ UNCHANGED <<prog, crvars, lr, exit_msg, trainvars, argvars, paramvars,
                   testvars, intvars, rtvars>>

\* the update of lines 475-482 without the test of line 474
AdaptStep_always ==
    /\ prog \in {"test", "interact"} /\ pc = "adapt"
    /\ \E g \in Grads :
          /\ grad' = clip_grad_norm(grad + g)
          /\ params' = params - lr * clip_grad_norm(grad + g)
          /\ nupdates' = nupdates + 1
          /\ sent_grad' = g
          /\ last_update' = -lr * clip_grad_norm(grad + g)
    /\ i' = i + 1
    /\ pc' = "loop"
    /\ ClearSentence
    /\ UNCHANGED <<prog, crvars, lr, exit_msg, trainvars, argvars, out_updates,
                   complexn, guessn, nsents, adapted_model, intvars, rtvars>>

\* lines 474-484: the update after sentence i, and the loop's next pass
AdaptStep ==
    /\ prog \in {"test", "interact"} /\ pc = "adapt"
    /\ IF adapt
       THEN \E g \in Grads :
               /\ grad' = clip_grad_norm(grad + g)
               /\ params' = params - lr * clip_grad_norm(grad + g)
               /\ nupdates' = nupdates + 1
               /\ sent_grad' = g
               /\ last_update' = -lr * clip_grad_norm(grad + g)
       ELSE UNCHANGED paramvars
    /\ i' = i + 1
    /\ pc' = "loop"
    /\ ClearSentence
    /\ UNCHANGED <<prog, crvars, lr, exit_msg, trainvars, argvars, out_updates,
                   complexn, guessn, nsents, adapted_model, intvars, rtvars>>

\* lines 424-453: a sentence with --view_layer >= 0, one forward pass per word
ViewLayerSentence ==
    /\ prog \in {"test", "interact"} /\ pc = "loop"
    /\ i < nsents
    /\ view_layer >= 0
    /\ \E n \in 1 .. MaxTargets : \E obs \in [1 .. n -> Classes] :
        /\ rows' = SelectSeq([p \in 1 .. n |-> <<idx2word[obs[p]], "cell state">>],
                             LAMBDA r : r[1] /= "<eos>")
        /\ targets' = obs
    /\ grad' = 0
    /\ i' = i + 1
    /\ UNCHANGED <<prog, crvars, pc, lr, exit_msg, trainvars, argvars, output_flat,
                   beamix, loss, out_updates, params, nupdates, sent_grad,
                   last_update, complexn,
                   guessn, nsents, adapted_model, intvars, rtvars>>

\* lines 488-493 and 644-646 (634-636 when interactive)
TestReturn ==
    /\ prog \in {"test", "interact"} /\ pc = "loop"
    /\ i >= nsents
    /\ adapted_model' = IF adapt THEN <<params>> ELSE adapted_model
    /\ pc' = IF prog = "interact" THEN "prompt" ELSE "done"
    /\ ClearSentence
    /\ UNCHANGED <<prog, crvars, lr, exit_msg, trainvars, argvars, out_updates,
                   paramvars, complexn, guessn, nsents, i, intvars, rtvars>>

(***************************************************************************)
(* main.py: the interactive loop.                                          *)
(***************************************************************************)
\* lines 625-628: a sentence is read and tokenized, test_evaluate is entered
ReadSentence ==
    /\ prog = "interact" /\ pc = "prompt"
    /\ ninputs < MaxInputs
    /\ ninputs' = ninputs + 1
    /\ nsents' = 1
    /\ pc' = "normalise"
    /\ UNCHANGED <<prog, crvars, lr, exit_msg, trainvars, argvars, sentvars,
                   paramvars, complexn, guessn, i, adapted_model, sigint,
                   rtvars>>

\* lines 625, 637-638: Ctrl+C while input() waits
InterruptPrompt ==
    /\ prog = "interact" /\ pc = "prompt"
    /\ sigint' = TRUE
    /\ exit_msg' = " "
    /\ pc' = "done"
    /\ UNCHANGED <<prog, crvars, lr, trainvars, argvars, sentvars, paramvars,
                   testvars, ninputs, rtvars>>

\* lines 627-636: Ctrl+C while test_evaluate runs; the bare except takes it
InterruptEvaluate ==
    /\ prog = "interact" /\ pc \in {"normalise", "loop", "adapt"}
    /\ sigint' = TRUE
    /\ exit_msg' = "RuntimeError: Most likely one of the input words was out-of-vocabulary."
    /\ adapted_model' = IF adapt THEN <<params>> ELSE adapted_model
    /\ pc' = "prompt"
    /\ ClearSentence
    /\ UNCHANGED <<prog, crvars, lr, trainvars, argvars, out_updates, paramvars,
                   complexn, guessn, nsents, i, ninputs, rtvars>>

(***************************************************************************)
(* run_test.py                                                             *)
(***************************************************************************)
en_exps == <<"replication", "extension", "ic", "rc">>
es_exps == <<"replication", "extension">>

\* lines 44, 67: the experiments the script runs for a language
ExpsOf(l) == IF l = "en" THEN en_exps ELSE IF l = "es" THEN es_exps ELSE <<>>

Upper(l) == IF l = "en" THEN "EN" ELSE IF l = "es" THEN "ES" ELSE l

\* lines 47-48 and the like
sentsFile(l, ex) == "stimuli/" \o l \o "_" \o ex \o "_stimuli"
dataFile(l, n, ex) ==
    "results/" \o Upper(l) \o "/" \o l \o "_" \o ToString(n) \o "_" \o ex \o "_measures"

\* lines 8-29: the model file generate_results binds, None when no branch does
modelFile(l, n) ==
    IF l = "en" /\ n = 0
    THEN <<"models/en_models/hidden650_batch128_dropout0.2_lr20.0.pt">>
    ELSE IF l = "en" /\ n \in 1 .. 4
    THEN <<"models/en_models/en_hidden650_batch128_dropout0.2_lr20_" \o ToString(n) \o ".pt">>
    ELSE IF l = "es" /\ n \in 0 .. 4
    THEN <<"models/es_models/es_hidden650_batch64_dropout0.2_lr20_" \o ToString(n) \o ".pt">>
    ELSE None

NumArgs == {ToString(n) : n \in 0 .. MaxModelNum}
\* int(sys.argv[2]) of a decimal argument
int(s) == CHOOSE n \in 0 .. MaxModelNum : ToString(n) = s

\* lines 37-42
RunTestMain ==
    /\ prog = "run_test" /\ pc = "rt_start"
    /\ IF Len(argv) /= 3
       THEN /\ pc' = "done"
            /\ exit_msg' = "INCORRECT USAGE"
            /\ UNCHANGED <<lang, model_num>>
       ELSE IF argv[3] \notin NumArgs
       THEN /\ pc' = "crashed"
            /\ exit_msg' = "ValueError"
            /\ UNCHANGED <<lang, model_num>>
       ELSE /\ lang' = argv[2]
            /\ model_num' = int(argv[3])
            /\ pc' = "rt_exps"
            /\ UNCHANGED exit_msg
    /\ UNCHANGED <<prog, crvars, lr, trainvars, argvars, sentvars, paramvars,
                   testvars, intvars, argv, nexp, calls>>

\* lines 6-31 called from lines 47-49 (and the like): one experiment
generate_results ==
    /\ prog = "run_test" /\ pc = "rt_exps"
    /\ nexp < Len(ExpsOf(lang))
    /\ LET ex == ExpsOf(lang)[nexp + 1]
           mf == modelFile(lang, model_num)
       IN IF mf = None
          THEN /\ pc' = "crashed"
               /\ exit_msg' = "UnboundLocalError"
               /\ UNCHANGED <<nexp, calls>>
          ELSE /\ calls' = Append(calls, <<"./test_results.sh", mf[1],
                                          sentsFile(lang, ex), lang,
                                          dataFile(lang, model_num, ex)>>)
               /\ nexp' = nexp + 1
               /\ UNCHANGED <<pc, exit_msg>>
    /\ UNCHANGED <<prog, crvars, lr, trainvars, argvars, sentvars, paramvars,
                   testvars, intvars, argv, lang, model_num>>

\* the script falls off its end
RunTestEnd ==
    /\ prog = "run_test" /\ pc = "rt_exps"
    /\ nexp >= Len(ExpsOf(lang))
    /\ pc' = "done"
    /\ UNCHANGED <<prog, crvars, lr, exit_msg, trainvars, argvars, sentvars,
                   paramvars, testvars, intvars, rtvars>>

(***************************************************************************)
(* compile_results.py                                                      *)
(***************************************************************************)
path == "results/"
langs == <<"EN", "ES">>

\* lines 32-35
exps_of(l) == IF l = "EN" THEN en_exps ELSE es_exps

\* Python's `a in b` of two strings
in(a, b) == \E k \in 1 .. Len(b) - Len(a) + 1 : SubSeq(b, k, k + Len(a) - 1) = a

\* glob.glob(prefix + '*') over the files of results/
glob(prefix) ==
    {f \in results_dir : Len(f) >= Len(prefix) /\ SubSeq(f, 1, Len(prefix)) = prefix}

\* line 38: filter(lambda x: exp in x, files)
filter(ex, fs) == {x \in fs : in(ex, x)}

\* float(surps[k]) of a decimal field
float(s) == CHOOSE n \in 0 .. MaxSurp : ToString(n) = s

\* lines 6-11
Entry(surps) ==
    [high_sg |-> float(surps[1]), low_sg |-> float(surps[2]),
     low_pl |-> float(surps[3]), high_pl |-> float(surps[4])]

\* statistics.mean as the pair <<sum, count>> of the fraction sum/count
RECURSIVE total(_)
total(xs) == IF xs = <<>> THEN 0 ELSE Head(xs) + total(Tail(xs))
mean(xs) == <<total(xs), Len(xs)>>

\* the rows main.py writes for sentence k (from 0) of a file, which has two
\* words when k is even and one when k is odd; a row is line.strip().split()
\* and the surprisals of consecutive rows differ
sent_rows(k, first) ==
    LET j == 3 * (k \div 2)      \* rows of the sentences before an even k
        at(r, pos) == <<"w", ToString(k), ToString(pos), "1",
                        ToString((first + r) % (MaxSurp + 1))>>
    IN IF k % 2 = 0 THEN <<at(j, 0), at(j + 1, 1)>> ELSE <<at(j + 2, 0)>>

\* the rows below the header of a results file of ns sentences (ids 0..ns-1)
RECURSIVE file_rows(_, _)
file_rows(ns, first) ==
    IF ns = 0 THEN <<>>
    ELSE file_rows(ns - 1, first) \o sent_rows(ns - 1, first)

FileContents == {file_rows(ns, first) : ns \in 1 .. MaxFileSents, first \in 0 .. MaxFirst}

\* lines 47-57: the loop over the lines of one file, from line k on; st holds
\* the loop's variables
RECURSIVE read_lines(_, _, _)
read_lines(data, k, st) ==
    IF k > Len(data) \/ st.err /= "" THEN st
    ELSE LET line == data[k]
             cur_ID == int(line[2])
         IN IF cur_ID /= st.sentID
            THEN IF st.last_line = None
                 THEN read_lines(data, k + 1, [st EXCEPT !.err = "TypeError"])
                 ELSE LET s1 == Append(st.surps, st.last_line[5])
                          full == Len(s1) = 4
                      IN read_lines(data, k + 1,
                            [st EXCEPT !.sentID = cur_ID,
                                       !.surp = <<st.last_line[5]>>,
                                       !.rec = Append(@, st.last_line[5]),
                                       !.surps = IF full THEN <<>> ELSE s1,
                                       !.made = IF full THEN Append(@, Entry(s1)) ELSE @,
                                       !.last_line = line])
            ELSE read_lines(data, k + 1, [st EXCEPT !.last_line = line])

\* lines 42-62: one file of red_files, data being its lines below the header
read_file(data, surp0) ==
    LET st == read_lines(data, 1,
                  [sentID |-> 0, last_line |-> None, surps |-> <<>>,
                   surp |-> surp0, rec |-> <<>>, made |-> <<>>, err |-> ""])
    IN IF st.err /= "" THEN st
       ELSE IF st.surp = None THEN [st EXCEPT !.err = "NameError"]
       ELSE LET s1 == Append(st.surps, st.surp[1])
            IN [st EXCEPT !.rec = Append(@, st.surp[1]),
                          !.surps = s1,
                          !.made = IF Len(s1) = 4 THEN Append(@, Entry(s1)) ELSE @]

\* lines 29-35: the next language of langs
GlobLang ==
    /\ prog = "compile" /\ pc = "cr_lang"
    /\ nlang < Len(langs)
    /\ files' = glob(path \o langs[nlang + 1] \o "/")
    /\ disk' = <<>>
    /\ ncexp' = 0
    /\ pc' = "cr_exp"
    /\ UNCHANGED <<prog, lr, exit_msg, trainvars, argvars, sentvars, paramvars,
                   testvars, intvars, rtvars, results_dir, nlang, red_files,
                   entries, surp, means, sel_hist, rec_file, rec_surps,
                   rec_entries>>

\* lines 37-40: the next experiment of the language
FilterExp ==
    /\ prog = "compile" /\ pc = "cr_exp"
    /\ ncexp < Len(exps_of(langs[nlang + 1]))
    /\ LET ex == exps_of(langs[nlang + 1])[ncexp + 1]
       IN /\ red_files' = filter(ex, files)
          /\ sel_hist' = Append(sel_hist, <<langs[nlang + 1], ex, filter(ex, files)>>)
    /\ entries' = <<>>
    /\ means' = None
    /\ pc' = "cr_file"
    /\ UNCHANGED <<prog, lr, exit_msg, trainvars, argvars, sentvars, paramvars,
                   testvars, intvars, rtvars, results_dir, disk, nlang, files,
                   ncexp, surp, rec_file, rec_surps, rec_entries>>

\* lines 41-62: one file of red_files, in the order glob gave
AggregateFile ==
    /\ prog = "compile" /\ pc = "cr_file"
    /\ \E f \in red_files :
       \E data \in (IF f \in DOMAIN disk THEN {disk[f]} ELSE FileContents) :
          LET st == read_file(data, surp)
          IN /\ disk' = [g \in DOMAIN disk \cup {f} |-> IF g = f THEN data ELSE disk[g]]
             /\ red_files' = red_files \ {f}
             /\ rec_file' = <<f>>
             /\ rec_surps' = st.rec
             /\ rec_entries' = st.made
             /\ surp' = st.surp
             /\ IF st.err /= ""
                THEN /\ pc' = "crashed"
                     /\ exit_msg' = st.err
                     /\ UNCHANGED entries
                ELSE /\ entries' = entries \o st.made
                     /\ UNCHANGED <<pc, exit_msg>>
    /\ UNCHANGED <<prog, lr, trainvars, argvars, sentvars, paramvars, testvars,
                   intvars, rtvars, results_dir, nlang, files, ncexp, means,
                   sel_hist>>

\* lines 64-73: the means of the experiment
PrintMeans ==
    /\ prog = "compile" /\ pc = "cr_file"
    /\ red_files = {}
    /\ IF entries = <<>>
       THEN /\ pc' = "crashed"
            /\ exit_msg' = "StatisticsError"
            /\ UNCHANGED <<means, ncexp>>
       ELSE /\ means' =
                 <<[HIGH_SG |-> mean([k \in 1 .. Len(entries) |-> entries[k].high_sg]),
                    LOW_SG  |-> mean([k \in 1 .. Len(entries) |-> entries[k].low_sg]),
                    HIGH_PL |-> mean([k \in 1 .. Len(entries) |-> entries[k].high_pl]),
                    LOW_PL  |-> mean([k \in 1 .. Len(entries) |-> entries[k].low_pl])]>>
            /\ ncexp' = ncexp + 1
            /\ pc' = "cr_exp"
            /\ UNCHANGED exit_msg
    /\ UNCHANGED <<prog, lr, trainvars, argvars, sentvars, paramvars, testvars,
                   intvars, rtvars, results_dir, disk, nlang, files, red_files,
                   entries, surp, sel_hist, rec_file, rec_surps, rec_entries>>

\* line 37: the experiments of the language are exhausted
LangDone ==
    /\ prog = "compile" /\ pc = "cr_exp"
    /\ ncexp >= Len(exps_of(langs[nlang + 1]))
    /\ nlang' = nlang + 1
    /\ pc' = "cr_lang"
    /\ UNCHANGED <<prog, lr, exit_msg, trainvars, argvars, sentvars, paramvars,
                   testvars, intvars, rtvars, results_dir, disk, files, ncexp,
                   red_files, entries, surp, means, sel_hist, rec_file,
                   rec_surps, rec_entries>>

\* line 29: langs is exhausted, the script ends
CompileEnd ==
    /\ prog = "compile" /\ pc = "cr_lang"
    /\ nlang >= Len(langs)
    /\ pc' = "done"
    /\ UNCHANGED <<prog, lr, exit_msg, trainvars, argvars, sentvars, paramvars,
                   testvars, intvars, rtvars, crvars>>

(***************************************************************************)
(* Initial states.                                                         *)
(***************************************************************************)
IdleTrain ==
    /\ epochs = 0 /\ epoch = 0 /\ best_val_loss = None /\ no_improvement = 0
    /\ model_file = None /\ val_hist = <<>> /\ save_hist = <<>>

IdleArgs ==
    /\ softcliptopk = FALSE /\ guess = FALSE
    /\ adapt = FALSE /\ words = FALSE /\ view_layer = -1

IdleTest ==
    /\ complexn = 0 /\ guessn = 1 /\ nsents = 0 /\ i = 0
    /\ targets = <<>> /\ output_flat = <<>> /\ beamix = <<>> /\ rows = <<>>
    /\ loss = None /\ params = 0 /\ grad = 0 /\ nupdates = 0
    /\ sent_grad = 0 /\ last_update = 0
    /\ out_updates = 0 /\ adapted_model = None
    /\ ninputs = 0 /\ sigint = FALSE

IdleRunTest ==
    /\ argv = <<>> /\ lang = "" /\ model_num = 0 /\ nexp = 0 /\ calls = <<>>

IdleCompile ==
    /\ results_dir = {} /\ disk = <<>> /\ nlang = 0 /\ files = {} /\ ncexp = 0
    /\ red_files = {} /\ entries = <<>> /\ surp = None /\ means = None
    /\ sel_hist = <<>> /\ rec_file = None /\ rec_surps = <<>> /\ rec_entries = <<>>

\* lines 549-551
InitTrain ==
    /\ prog = "train" /\ pc = "epoch_loop"
    /\ epochs \in 1 .. MaxEpochs
    /\ epoch = 0
    /\ lr = ArgsLr * LrScale
    /\ best_val_loss = None
    /\ no_improvement = 0
    /\ model_file = None /\ val_hist = <<>> /\ save_hist = <<>>
    /\ exit_msg = ""
    /\ IdleArgs /\ IdleTest /\ IdleRunTest /\ IdleCompile

InitRunTest ==
    /\ prog = "run_test" /\ pc = "rt_start"
    /\ argv \in {<<"run_test.py", l>> : l \in {"en", "es"}}
           \cup {<<"run_test.py", l, n>> :
                    l \in {"en", "es", "fr"}, n \in NumArgs \cup {"x"}}
           \cup {<<"run_test.py", l, "0", "1">> : l \in {"en", "es"}}
    /\ lang = "" /\ model_num = 0 /\ nexp = 0 /\ calls = <<>>
    /\ lr = ArgsLr * LrScale
    /\ exit_msg = ""
    /\ IdleTrain /\ IdleArgs /\ IdleTest /\ IdleCompile

\* lines 138-149 and 549: a run with --test or --adapt.  The beam flags are
\* explored without --guess and --adapt; --guess, and --adapt, --words and
\* --view_layer, with the other flags at their defaults.
InitTest ==
    /\ prog = "test" /\ pc = "normalise"
    /\ \/ /\ complexn \in -1 .. ntokens + 1
          /\ softcliptopk \in BOOLEAN /\ guess = FALSE
          /\ adapt = FALSE /\ words = TRUE /\ view_layer = -1
       \/ /\ complexn = 0
          /\ softcliptopk = FALSE /\ guess = TRUE
          /\ adapt = FALSE /\ words = TRUE /\ view_layer = -1
       \/ /\ complexn = 0
          /\ softcliptopk = FALSE /\ guess = FALSE
          /\ adapt \in BOOLEAN /\ words \in BOOLEAN /\ view_layer \in {-1, 0}
    /\ nsents \in 1 .. MaxSents
    /\ guessn = 1 /\ i = 0
    /\ targets = <<>> /\ output_flat = <<>> /\ beamix = <<>> /\ rows = <<>>
    /\ loss = None /\ params = 0 /\ grad = 0 /\ nupdates = 0
    /\ sent_grad = 0 /\ last_update = 0
    /\ out_updates = 0 /\ adapted_model = None
    /\ ninputs = 0 /\ sigint = FALSE
    /\ lr = ArgsLr * LrScale
    /\ exit_msg = ""
    /\ IdleTrain /\ IdleRunTest /\ IdleCompile

\* lines 140-145 and 603-623: a run with --interact
InitInteract ==
    /\ prog = "interact" /\ pc = "prompt"
    /\ softcliptopk = FALSE /\ guess = FALSE
    /\ adapt \in BOOLEAN
    /\ words = TRUE
    /\ view_layer = -1
    /\ IdleTest
    /\ lr = ArgsLr * LrScale
    /\ exit_msg = ""
    /\ IdleTrain /\ IdleRunTest /\ IdleCompile

\* the files run_test.py writes for language l when run with the model numbers ns
written(l, ns) ==
    {dataFile(l, n, ExpsOf(l)[k]) :
        n \in {m \in ns : modelFile(l, m) /= None}, k \in 1 .. Len(ExpsOf(l))}

\* compile_results.py lines 13-25, after run_test.py ran for each language
\* with no or one model number
InitCompile ==
    /\ prog = "compile" /\ pc = "cr_lang"
    /\ \E en_runs, es_runs \in {{}} \cup {{n} : n \in 0 .. MaxRunModel} :
          results_dir = written("en", en_runs) \cup written("es", es_runs)
    /\ disk = <<>> /\ nlang = 0 /\ files = {} /\ ncexp = 0
    /\ red_files = {} /\ entries = <<>> /\ surp = None /\ means = None
    /\ sel_hist = <<>> /\ rec_file = None /\ rec_surps = <<>> /\ rec_entries = <<>>
    /\ lr = ArgsLr * LrScale
    /\ exit_msg = ""
    /\ IdleTrain /\ IdleArgs /\ IdleTest /\ IdleRunTest

Init == InitTrain \/ InitTest \/ InitInteract \/ InitRunTest \/ InitCompile

Next ==
    \/ EpochStep
    \/ EpochsExhausted
    \/ TrainInterrupt
    \/ Normalise
    \/ EvalSentence
    \/ AdaptStep
    \/ ViewLayerSentence
    \/ TestReturn
    \/ ReadSentence
    \/ InterruptPrompt
    \/ InterruptEvaluate
    \/ RunTestMain
    \/ generate_results
    \/ RunTestEnd
    \/ GlobLang
    \/ FilterExp
    \/ AggregateFile
    \/ PrintMeans
    \/ LangDone
    \/ CompileEnd

Spec == Init /\ [][Next]_vars

(***************************************************************************)
(* Properties.                                                             *)
(***************************************************************************)
Min(S) == CHOOSE m \in S : \A x \in S : m <= x

\* epoch e's validation loss is strictly lower than that of every earlier epoch
StrictlyBest(e) == \A d \in 1 .. e - 1 : val_hist[e] < val_hist[d]

\* the number of epochs at the end of the run so far that did not improve
RECURSIVE Trailing(_)
Trailing(e) == IF e <= 1 \/ StrictlyBest(e) THEN 0 ELSE 1 + Trailing(e - 1)

ConvergedMsg == "Covergence achieved! Ending training early"

\* C1: an epoch saves the model iff its validation loss is strictly lower
\* than that of every earlier epoch (or it is the first); so the checkpoint
\* is the model of the epoch with the lowest validation loss so far, and
\* best_val_loss is that lowest loss (it never increases).
C1_SavedIffStrictlyBest ==
    prog = "train" =>
        /\ \A e \in 1 .. Len(val_hist) : save_hist[e] <=> StrictlyBest(e)
        /\ val_hist /= <<>> =>
              /\ model_file /= None
              /\ val_hist[model_file[1]] = Min({val_hist[e] : e \in 1 .. Len(val_hist)})
              /\ best_val_loss = <<Min({val_hist[e] : e \in 1 .. Len(val_hist)})>>

\* C10: training runs at most args.epochs epochs; it ends early exactly at
\* the end of the third consecutive epoch that did not improve the validation
\* loss; no_improvement counts the consecutive non-improving epochs (an
\* improving epoch resets it) and stays within 0..3.
C10_EarlyStopAtThirdNonImproving ==
    prog = "train" =>
        /\ epoch <= epochs
        /\ no_improvement \in 0 .. 3
        /\ no_improvement = Trailing(Len(val_hist))
        /\ (exit_msg = ConvergedMsg) <=> (Trailing(Len(val_hist)) >= 3)

\* the state in which the rows of sentence i have just been printed
RowsPrinted ==
    /\ prog \in {"test", "interact"} /\ pc = "adapt"
    /\ words /\ view_layer < 0

\* the entropies and surprisals get_complexity computed for sentence i
Hs == entropies(output_flat, beamix, complexn, softcliptopk)
Surps == surprisals(output_flat, beamix, complexn, softcliptopk)

\* C2 (as stated): the entropy-reduction field of a row at position i > 0 is
\* the entropy at position i-1 minus the entropy at position i.
C2_EntredIsDifference ==
    RowsPrinted =>
        \A k \in 1 .. Len(rows) :
            rows[k][3] > 0 => rows[k][7] = Hs[rows[k][3]] - Hs[rows[k][3] + 1]

\* C2 (amended): the entropy-reduction field of a row at position i > 0 is
\* the entropy at position i-1 minus the entropy at position i when that
\* difference is positive, and 0 otherwise.
C2_EntredIsClampedDifference ==
    RowsPrinted =>
        \A k \in 1 .. Len(rows) :
            rows[k][3] > 0 =>
                rows[k][7] = IF Hs[rows[k][3]] > Hs[rows[k][3] + 1]
                             THEN Hs[rows[k][3]] - Hs[rows[k][3] + 1]
                             ELSE 0

C2_Witness ==
    /\ RowsPrinted
    /\ \E k \in 1 .. Len(rows) :
          rows[k][3] > 0 /\ rows[k][7] > 0 /\ Hs[rows[k][3]] > Hs[rows[k][3] + 1]

\* C3: every entropy-reduction value printed is non-negative, the value of
\* position 0 of every sentence is 0, and a rise of the entropy is printed
\* as 0.
C3_EntredNonNegative ==
    RowsPrinted =>
        \A k \in 1 .. Len(rows) :
            /\ rows[k][7] >= 0
            /\ rows[k][3] = 0 => rows[k][7] = 0
            /\ (rows[k][3] > 0 /\ Hs[rows[k][3] + 1] > Hs[rows[k][3]]) => rows[k][7] = 0

C3_Witness ==
    /\ RowsPrinted
    /\ i >= 1
    /\ Len(rows) = 2
    /\ rows[1][3] = 0 /\ rows[1][7] = 0
    /\ rows[2][6] > rows[1][6] /\ rows[2][7] = 0
    /\ Hs[Len(Hs)] > Hs[1]

\* the positions of the targets that are not '<eos>', and the k-th of them
NonEos(obs) == {p \in 1 .. Len(obs) : idx2word[obs[p]] /= "<eos>"}
KthNonEos(obs, k) ==
    CHOOSE p \in NonEos(obs) : Cardinality({q \in NonEos(obs) : q < p}) = k - 1

\* C4: in word-level mode one row is printed per target that is not '<eos>',
\* in target order; its fields are the word, the sentence id, the index of
\* the target in the full target sequence, the word's length, the surprisal
\* of the target at that position, the entropy at that position, the entropy
\* reduction, and the guesses only with --guess.
C4_OneRowPerWord ==
    RowsPrinted =>
        /\ Len(rows) = Cardinality(NonEos(targets))
        /\ \A k \in 1 .. Len(rows) :
              LET p == KthNonEos(targets, k)
                  word == idx2word[targets[p]]
              IN /\ word /= "<eos>"
                 /\ rows[k][1] = word
                 /\ rows[k][2] = i
                 /\ rows[k][3] = p - 1
                 /\ rows[k][4] = Len(word)
                 /\ rows[k][5] = Surps[p][targets[p]]
                 /\ rows[k][6] = Hs[p]
                 /\ rows[k][7] = (IF p > 1 /\ Hs[p - 1] > Hs[p] THEN Hs[p - 1] - Hs[p] ELSE 0)
                 /\ Len(rows[k]) = (IF guess THEN 8 ELSE 7)
                 /\ guess =>
                       \E c \in Classes :
                          /\ rows[k][8] = idx2word[c]
                          /\ \A d \in Classes : output_flat[p][c] >= output_flat[p][d]

C4_Witness ==
    /\ RowsPrinted
    /\ i >= 1
    /\ Len(targets) = 2
    /\ idx2word[targets[1]] = "<eos>"
    /\ Len(rows) = 1 /\ rows[1][1] = "dog" /\ rows[1][3] = 1 /\ rows[1][4] = 3

\* the entropy of the distribution over the classes of K alone, scores v
EntropyOver(v, K) ==
    LET w == [c \in Classes |-> Pow(2, v[c] - MinScore)]
        z == SumOver(K, w)
        lz == ILog2(Pow(z, Resolution))
    IN SumOver(K, [c \in Classes |-> w[c] * (lz - Resolution * (v[c] - MinScore))]) \div z

C6_AdaptAfterOutput ==
    /\ (prog = "test" /\ adapt /\ view_layer < 0) =>
          /\ pc = "adapt" => out_updates = i /\ nupdates = i
          /\ pc = "loop" => nupdates = i
          /\ pc = "adapt" => \A k \in 1 .. Len(rows) : rows[k][2] = i
          /\ adapted_model /= None => (pc = "done" /\ adapted_model = <<params>>)
    /\ (prog \in {"test", "interact"} /\ ~adapt) =>
          params = 0 /\ nupdates = 0 /\ adapted_model = None

C6_Witness ==
    /\ prog = "test" /\ adapt /\ view_layer < 0 /\ words
    /\ pc = "adapt" /\ i = 1
    /\ params /= 0 /\ out_updates = 1
    /\ rows /= <<>>

\* C7: after the normalisation of test_evaluate 1 <= complexn <= vocabulary
\* size; a complexn of 0, below 0 or above the vocabulary size is replaced by
\* the vocabulary size; and with complexn equal to the vocabulary size the
\* entropies and surprisals are those of the unrestricted distribution, with
\* or without --softcliptopk.
C7_Normalised ==
    (prog \in {"test", "interact"} /\ pc \in {"loop", "adapt"}) =>
        /\ 1 <= complexn /\ complexn <= ntokens
        /\ (RowsPrinted /\ complexn = ntokens) =>
              \A k \in 1 .. Len(rows) :
                 LET p == rows[k][3] + 1
                 IN /\ rows[k][5] = get_surps(output_flat[p])[targets[p]]
                    /\ rows[k][6] = get_entropy(output_flat[p])

C7_Replaced ==
    (pc = "normalise" /\ pc' = "loop") =>
        complexn' = IF complexn \in 1 .. ntokens THEN complexn ELSE ntokens

C7_BeamSizeNormalisation == []C7_Normalised /\ [][C7_Replaced]_vars

C7_Witness ==
    /\ RowsPrinted /\ prog = "test" /\ complexn = ntokens /\ softcliptopk
    /\ Len(rows) = 2
    /\ rows[1][5] /= rows[2][5]

\* C8: in interactive mode a keyboard interrupt ends the session at whatever
\* point it arrives.
C8_InterruptEndsSession ==
    (prog = "interact" /\ sigint) => pc = "done"

\* the calls run_test.py is to make for a language and a model number
ExpectedCalls(l, n) ==
    [k \in 1 .. Len(ExpsOf(l)) |->
        <<"./test_results.sh", modelFile(l, n)[1],
          "stimuli/" \o l \o "_" \o ExpsOf(l)[k] \o "_stimuli", l,
          "results/" \o (IF l = "en" THEN "EN" ELSE "ES") \o "/" \o l \o "_"
              \o ToString(n) \o "_" \o ExpsOf(l)[k] \o "_measures">>]

\* C9: for every language of {en, es} and every model number of 0..5,
\* run_test.py resolves a model file and calls ./test_results.sh once per
\* experiment of the language, in order, each call writing to
\* results/<LANG>/<lang>_<n>_<experiment>_measures.
C9_AdvertisedUsageAccepted ==
    (/\ prog = "run_test"
     /\ Len(argv) = 3
     /\ argv[2] \in {"en", "es"}
     /\ argv[3] \in {ToString(n) : n \in 0 .. 5}) =>
        /\ pc /= "crashed"
        /\ pc = "done" => calls = ExpectedCalls(argv[2], int(argv[3]))

\* the epochs among the first n that did not improve the validation loss
NonImproving(n) == Cardinality({e \in 1 .. n : ~StrictlyBest(e)})

\* the epochs whose end the learning rate of the next epoch depends on: all
\* the completed ones, but for the epoch that ended the training early
AnnealingEpochs ==
    IF exit_msg = ConvergedMsg THEN Len(val_hist) - 1 ELSE Len(val_hist)

\* C11: at the start of every epoch lr is args.lr divided by 4 to the number
\* of earlier epochs that did not improve the validation loss (so an
\* improving epoch leaves it unchanged and it never increases), and the epoch
\* that triggers early stopping does not change it.
C11_LrAnnealedPerNonImprovingEpoch ==
    prog = "train" =>
        /\ lr <= ArgsLr * LrScale
        /\ lr * Pow(4, NonImproving(AnnealingEpochs)) = ArgsLr * LrScale

\* C12: with --adapt and view_layer < 0 the update after sentence i adds
\* -lr times the (clipped) gradient of sentence i's loss alone; the
\* gradients of sentences 0..i-1 do not contribute.
C12_UpdateUsesOwnGradient ==
    (prog \in {"test", "interact"} /\ adapt /\ view_layer < 0 /\ nupdates > 0) =>
        /\ grad = clip_grad_norm(sent_grad)
        /\ last_update = -lr * clip_grad_norm(sent_grad)

\* the surprisal field (column 4) of the last row of sentence sid of a file
OwnLastSurp(data, sid) ==
    LET last == CHOOSE k \in 1 .. Len(data) :
                    /\ int(data[k][2]) = sid
                    /\ \A m \in k + 1 .. Len(data) : int(data[m][2]) /= sid
    IN data[last][5]

\* per sentence of a file, in order, the surprisal of its own last row
OwnSurps(data) ==
    [j \in 1 .. int(data[Len(data)][2]) + 1 |-> OwnLastSurp(data, j - 1)]

\* C13: for every sentence of a results file, the last one included, the
\* surprisal recorded is column 4 of the sentence's own last row; the
\* recorded surprisals make one Entry (high_sg, low_sg, low_pl, high_pl) per
\* four consecutive sentences; no value comes from another file or sentence.
C13_OwnLastRowSurprisal ==
    (prog = "compile" /\ pc /= "crashed" /\ rec_file \in Seq(DOMAIN disk) /\ rec_file /= None) =>
        LET own == OwnSurps(disk[rec_file[1]])
        IN /\ rec_surps = own
           /\ rec_entries = [g \in 1 .. Len(own) \div 4 |->
                                Entry(SubSeq(own, 4 * g - 3, 4 * g))]

\* the directory name of a language of run_test.py
LangOf(L) == IF L = "EN" THEN "en" ELSE "es"

\* the results files run_test.py writes for experiment ex of language L
WrittenFor(L, ex) ==
    {dataFile(LangOf(L), n, ex) :
        n \in {m \in 0 .. MaxModelNum : modelFile(LangOf(L), m) /= None}}

\* C14: the files selected for an experiment are exactly the files of the
\* language's directory that run_test.py wrote for that experiment, and no
\* file is selected for two experiments.
C14_FileUnderExactlyOneExperiment ==
    prog = "compile" =>
        /\ \A k \in 1 .. Len(sel_hist) :
              sel_hist[k][3] = results_dir \cap WrittenFor(sel_hist[k][1], sel_hist[k][2])
        /\ \A k, m \in 1 .. Len(sel_hist) :
              k /= m => sel_hist[k][3] \cap sel_hist[m][3] = {}

====
